---- MODULE Spec2Model ----
(***************************************************************************)
(* Model of the linear-operator layer (src/src/num/linop.c): the ring of   *)
(* shared_data_s nodes behind the forward/adjoint/normal/pseudo-inverse    *)
(* handles of a linop_s, construction, cloning, chaining, application and  *)
(* release.  The generic reference-counted operator layer (num/ops.c) and  *)
(* md_calc_strides are not part of the sources at hand; they are modelled  *)
(* from the specification (create / compose / apply / ref / free).         *)
(*                                                                         *)
(* A buffer is abstracted to one value of Val; a callback ("function       *)
(* pointer") is a positive integer that encodes an affine map over Val, so *)
(* that compositions in different orders give different results.           *)
(***************************************************************************)
EXTENDS Integers, Sequences, FiniteSets, TLC

\* ------------------------------------------------------------ bounds
MaxCreate == 2        \* calls of linop_create that return or abort
MaxDerived == 1       \* calls of linop_clone / linop_chain
MaxVal == 2           \* buffer values are 0 .. MaxVal

\* --------------------------------------------------------- constants
NULL == 0
CFL_SIZE == 8

M == MaxVal + 1
Val == 0 .. MaxVal
Slots == <<"forward", "adjoint", "normal", "pinverse">>
ShapeSet == {<<2>>, <<3>>}
Lambdas == {0, 1}

\* ------------------------------------------- callbacks (caller input)
\* The callback with address cb computes x |-> a*x + b (mod M).
CbOf(a, b) == 1 + (a % M) * M + (b % M)
CbA(cb) == (cb - 1) \div M
CbB(cb) == (cb - 1) % M
CbCall(cb, x) == (CbA(cb) * x + CbB(cb)) % M
CbCallP(cb, lambda, x) == (CbA(cb) * x + CbB(cb) + lambda) % M
\* the callback computing g after f
CbCompose(g, f) == CbOf(CbA(g) * CbA(f), CbA(g) * CbB(f) + CbB(g))

\* the callbacks a caller has for its data: different data, different maps
ForwardChoices(data) == {NULL, IF data % 2 = 1 THEN CbOf(1, 1) ELSE CbOf(2, 0)}
AdjointChoices(data) == {NULL, IF data % 2 = 1 THEN CbOf(2, 1) ELSE CbOf(1, 2)}
NormalChoices(f, g) == {NULL, CbCompose(g, f), CbOf(1, 0)}
PinverseChoices == {NULL, CbOf(1, 1)}

\* ------------------------------------------------------------- state
VARIABLES
    nodes,      \* shared_data_s objects: node id -> record
    ops,        \* operator_s objects (operator layer): sequence of records
    linops,     \* linop_s objects: sequence of records
    delCount,   \* payload -> number of times its deleter ran
    nCreated,   \* number of linop_create calls so far (payload ids)
    fatal,      \* "none", or the fatal error that ended the process
    last,       \* the last application call and what it did
    given,      \* payload -> the arguments its linop_create2 call was given
    gst         \* the gradient operator: its data, the last calls, the scratch

vars == <<nodes, ops, linops, delCount, nCreated, fatal, last, given, gst>>

NodeIds == 1 .. (4 * MaxCreate)
Payloads == 1 .. MaxCreate

UnallocNode == [st |-> "unalloc", data |-> 0, next |-> 0, prev |-> 0, del |-> 0, apply |-> 0]
FreedNode == [st |-> "freed", data |-> 0, next |-> 0, prev |-> 0, del |-> 0, apply |-> 0]
FreedOp == [kind |-> "freed", data |-> 0, a |-> 0, b |-> 0, ref |-> 0,
            dom |-> <<>>, cod |-> <<>>]

Heap == [nodes |-> nodes, ops |-> ops, dels |-> delCount, fatal |-> fatal]

\* --------------------------------------------------- shared_data ring
\* mutant: only the successor is relinked
shared_unlink_half(ns, d) ==
    [ns EXCEPT ![ns[d].next].prev = ns[d].prev]

shared_unlink(ns, d) ==
    LET n1 == [ns EXCEPT ![ns[d].next].prev = ns[d].prev]
    IN  [n1 EXCEPT ![n1[d].prev].next = n1[d].next]

\* mutant: the node is freed without being taken out of the ring
shared_del_noUnlink(h, d) ==
    LET n == h.nodes[d] IN
    IF n.next = d
    THEN [h EXCEPT !.dels[n.del] = @ + 1, !.nodes[d] = FreedNode]
    ELSE [h EXCEPT !.nodes[d] = FreedNode]

shared_del(h, d) ==
    LET n == h.nodes[d] IN
    IF n.next = d
    THEN IF d # n.prev
         THEN [h EXCEPT !.fatal = "assert:shared_del"]
         ELSE [h EXCEPT !.dels[n.del] = @ + 1, !.nodes[d] = FreedNode]
    ELSE [h EXCEPT !.nodes = [shared_unlink(h.nodes, d) EXCEPT ![d] = FreedNode]]

\* ------------------------------------ operator layer (num/ops.c, iovec)
RECURSIVE Prod(_, _)
Prod(dims, n) == IF n = 0 THEN 1 ELSE dims[n] * Prod(dims, n - 1)

md_calc_strides(dims, size) ==
    [i \in 1 .. Len(dims) |-> IF dims[i] = 1 THEN 0 ELSE size * Prod(dims, i - 1)]

iovec(dims, strs) == [dims |-> dims, strs |-> strs]

\* a new operator with reference count 1; its handle is its index in ops
operator_create2(h, odims, ostrs, idims, istrs, data, kind) ==
    [h EXCEPT !.ops = Append(@, [kind |-> kind, data |-> data, a |-> NULL, b |-> NULL,
                                 ref |-> 1, dom |-> iovec(idims, istrs),
                                 cod |-> iovec(odims, ostrs)])]

operator_ref(h, x) ==
    IF x = NULL THEN h ELSE [h EXCEPT !.ops[x].ref = @ + 1]

\* the composition "a, then b": holds a reference to each of its parts
operator_chain(h, a, b) ==
    LET h1 == operator_ref(operator_ref(h, a), b)
    IN  [h1 EXCEPT !.ops = Append(@, [kind |-> "chain", data |-> NULL, a |-> a, b |-> b,
                                      ref |-> 1, dom |-> h.ops[a].dom,
                                      cod |-> h.ops[b].cod])]

\* drops one reference; the last one runs the operator's del (shared_del for a
\* handle made by linop_create2, the release of both parts for a composition).
\* Releasing a released operator is a use after free: the actions release each
\* handle once per reference they hold, so that branch is not reached.
RECURSIVE operator_free(_, _)
operator_free(h, x) ==
    IF x = NULL \/ h.fatal # "none" THEN h
    ELSE IF h.ops[x].kind = "freed" THEN [h EXCEPT !.fatal = "fault:released-twice"]
    ELSE IF h.ops[x].ref > 1 THEN [h EXCEPT !.ops[x].ref = @ - 1]
    ELSE LET o == h.ops[x]
             h1 == IF o.kind = "chain"
                   THEN operator_free(operator_free(h, o.a), o.b)
                   ELSE shared_del(h, o.data)
         IN  [h1 EXCEPT !.ops[x] = FreedOp]

operator_domain(os, x) == os[x].dom
operator_codomain(os, x) == os[x].cod

\* ---------------------------------------------------- linop_create2
NoLinop == [forward |-> NULL, adjoint |-> NULL, normal |-> NULL, pinverse |-> NULL,
            st |-> "none", kind |-> "none", a |-> 0, b |-> 0, payloads |-> {},
            rel |-> {}, lastRel |-> "none"]

\* the four nodes of payload `data` are shared_data[0 .. 3]
NodeOf(data, i) == 4 * (data - 1) + i + 1

RingInit(ns, data, del, forward, adjoint, normal, pinverse) ==
    [d \in NodeIds |->
        IF \E i \in 0 .. 3 : d = NodeOf(data, i)
        THEN LET i == d - NodeOf(data, 0) IN
             [st |-> "live", data |-> data, del |-> del,
              next |-> NodeOf(data, (i + 1) % 4),
              prev |-> NodeOf(data, (i + 3) % 4),
              apply |-> <<forward, adjoint, normal, pinverse>>[i + 1]]
        ELSE ns[d]]

\* mutant: only forward is asserted
create_asserts_forwardOnly(forward, adjoint) ==
    IF forward = NULL THEN "assert:forward" ELSE "none"

\* assert((NULL != forward)); assert((NULL != adjoint)): the failed one, or "none"
create_asserts(forward, adjoint) ==
    IF forward = NULL THEN "assert:forward"
    ELSE IF adjoint = NULL THEN "assert:adjoint"
    ELSE "none"

\* mutant: the adjoint is created with the shapes of the forward
linop_create2_adjointUnswapped(h, odims, ostrs, idims, istrs, data, forward, adjoint, normal, pinverse, del) ==
    LET h0 == [h EXCEPT !.nodes = RingInit(@, data, del, forward, adjoint, normal, pinverse)]
        sd(i) == NodeOf(data, i)
    IN
    IF create_asserts(forward, adjoint) # "none"
    THEN [h |-> [h0 EXCEPT !.fatal = create_asserts(forward, adjoint)], lo |-> NoLinop]
    ELSE
    LET h1 == operator_create2(h0, odims, ostrs, idims, istrs, sd(0), "op")
        fwd == Len(h1.ops)
        h2 == operator_create2(h1, odims, ostrs, idims, istrs, sd(1), "op")
        adj == Len(h2.ops)
        h3 == IF normal # NULL
              THEN operator_create2(h2, idims, istrs, idims, istrs, sd(2), "op")
              ELSE [h2 EXCEPT !.nodes = [shared_unlink(@, sd(2)) EXCEPT ![sd(2)] = FreedNode]]
        nrm == IF normal # NULL THEN Len(h3.ops) ELSE NULL
        h4 == IF pinverse # NULL
              THEN operator_create2(h3, idims, istrs, odims, ostrs, sd(3), "op_p")
              ELSE [h3 EXCEPT !.nodes = [shared_unlink(@, sd(3)) EXCEPT ![sd(3)] = FreedNode]]
        pinv == IF pinverse # NULL THEN Len(h4.ops) ELSE NULL
    IN  [h |-> h4,
         lo |-> [forward |-> fwd, adjoint |-> adj, normal |-> nrm, pinverse |-> pinv,
                 st |-> "live", kind |-> "create", a |-> 0, b |-> 0, payloads |-> {data},
                 rel |-> {}, lastRel |-> "none"]]

linop_create2(h, odims, ostrs, idims, istrs, data, forward, adjoint, normal, pinverse, del) ==
    LET h0 == [h EXCEPT !.nodes = RingInit(@, data, del, forward, adjoint, normal, pinverse)]
        sd(i) == NodeOf(data, i)
    IN
    IF create_asserts(forward, adjoint) # "none"
    THEN [h |-> [h0 EXCEPT !.fatal = create_asserts(forward, adjoint)], lo |-> NoLinop]
    ELSE
    LET h1 == operator_create2(h0, odims, ostrs, idims, istrs, sd(0), "op")
        fwd == Len(h1.ops)
        h2 == operator_create2(h1, idims, istrs, odims, ostrs, sd(1), "op")
        adj == Len(h2.ops)
        h3 == IF normal # NULL
              THEN operator_create2(h2, idims, istrs, idims, istrs, sd(2), "op")
              ELSE [h2 EXCEPT !.nodes = [shared_unlink(@, sd(2)) EXCEPT ![sd(2)] = FreedNode]]
        nrm == IF normal # NULL THEN Len(h3.ops) ELSE NULL
        h4 == IF pinverse # NULL
              THEN operator_create2(h3, idims, istrs, odims, ostrs, sd(3), "op_p")
              ELSE [h3 EXCEPT !.nodes = [shared_unlink(@, sd(3)) EXCEPT ![sd(3)] = FreedNode]]
        pinv == IF pinverse # NULL THEN Len(h4.ops) ELSE NULL
    IN  [h |-> h4,
         lo |-> [forward |-> fwd, adjoint |-> adj, normal |-> nrm, pinverse |-> pinv,
                 st |-> "live", kind |-> "create", a |-> 0, b |-> 0, payloads |-> {data},
                 rel |-> {}, lastRel |-> "none"]]

linop_create(h, odims, idims, data, forward, adjoint, normal, pinverse, del) ==
    linop_create2(h, odims, md_calc_strides(odims, CFL_SIZE),
                  idims, md_calc_strides(idims, CFL_SIZE),
                  data, forward, adjoint, normal, pinverse, del)

\* ------------------------------------------ clone, chain, free
\* mutant: the handles are copied without taking references
linop_clone_noRef(h, x) ==
    [h |-> h,
     lo |-> [forward |-> x.forward, adjoint |-> x.adjoint, normal |-> x.normal,
             pinverse |-> x.pinverse, st |-> "live", kind |-> "clone",
             a |-> 0, b |-> 0, payloads |-> x.payloads,
             rel |-> {}, lastRel |-> "none"]]

linop_clone(h, x) ==
    LET h1 == operator_ref(operator_ref(operator_ref(operator_ref(h,
                  x.forward), x.adjoint), x.normal), x.pinverse)
    IN  [h |-> h1,
         lo |-> [forward |-> x.forward, adjoint |-> x.adjoint, normal |-> x.normal,
                 pinverse |-> x.pinverse, st |-> "live", kind |-> "clone",
                 a |-> 0, b |-> 0, payloads |-> x.payloads,
                 rel |-> {}, lastRel |-> "none"]]

\* mutant: the adjoints are composed in the order of the forwards
chain_adjoint_swapped(h, a, b) == operator_chain(h, a.adjoint, b.adjoint)

\* mutant: the fused normal is composed from a->normal
chain_normal_fromA(h, a, b, fwd, adj) ==
    IF b.normal = NULL \/ a.normal = NULL
    THEN operator_chain(h, fwd, adj)
    ELSE LET t1 == operator_chain(h, a.normal, b.adjoint)
             top == Len(t1.ops)
             t2 == operator_chain(t1, b.forward, top)
         IN  operator_free(t2, top)

\* c->forward and c->adjoint
chain_forward(h, a, b) == operator_chain(h, a.forward, b.forward)
chain_adjoint(h, a, b) == operator_chain(h, b.adjoint, a.adjoint)

\* c->normal, from c->forward (fwd) and c->adjoint (adj), or fused from b->normal
\* mutant: the temporary top is not released
chain_normal_keepTop(h, a, b, fwd, adj) ==
    IF b.normal = NULL
    THEN operator_chain(h, fwd, adj)
    ELSE LET t1 == operator_chain(h, b.normal, a.adjoint)
             top == Len(t1.ops)
         IN  operator_chain(t1, a.forward, top)

chain_normal(h, a, b, fwd, adj) ==
    IF b.normal = NULL
    THEN operator_chain(h, fwd, adj)
    ELSE LET t1 == operator_chain(h, b.normal, a.adjoint)
             top == Len(t1.ops)
             t2 == operator_chain(t1, a.forward, top)
         IN  operator_free(t2, top)

\* mutant: the pseudo-inverse of b is passed on
chain_pinverse_ofB(a, b) == b.pinverse

chain_pinverse(a, b) == NULL

linop_chain(h, a, b) ==
    LET h1 == chain_forward(h, a, b)
        fwd == Len(h1.ops)
        h2 == chain_adjoint(h1, a, b)
        adj == Len(h2.ops)
        h3 == chain_normal(h2, a, b, fwd, adj)
        nrm == Len(h3.ops)
    IN  [h |-> h3,
         lo |-> [forward |-> fwd, adjoint |-> adj, normal |-> nrm,
                 pinverse |-> chain_pinverse(a, b),
                 st |-> "live", kind |-> "chain", a |-> 0, b |-> 0,
                 payloads |-> a.payloads \cup b.payloads,
                 rel |-> {}, lastRel |-> "none"]]

\* mutant: the pseudo-inverse is not released
linop_free_noPinverse(h, op) ==
    operator_free(operator_free(operator_free(h, op.forward), op.adjoint), op.normal)

linop_free(h, op) ==
    operator_free(operator_free(operator_free(operator_free(h,
        op.forward), op.adjoint), op.normal), op.pinverse)

\* ------------------------------------------------------ application
\* what one application call did: outcome is "applied", "assert" (a failed
\* assertion of this layer) or "ub" (a null operator handed to the operator
\* layer); opcalls are the handles handed to the operator layer's apply,
\* cbs the callbacks invoked, each with the state it was given
NoCall == [call |-> "none", l |-> 0, lambda |-> 0, ddims |-> <<>>, sdims |-> <<>>,
           outcome |-> "none", written |-> FALSE, dst |-> <<>>, cbs |-> <<>>,
           opcalls |-> <<>>]

shared_apply(ns, d, src) == CbCall(ns[d].apply, src)
\* mutant: lambda is not handed on
shared_apply_p_noLambda(ns, d, lambda, src) == CbCall(ns[d].apply, src)

shared_apply_p(ns, d, lambda, src) == CbCallP(ns[d].apply, lambda, src)

RECURSIVE OpEval(_, _, _)
OpEval(h, x, src) ==
    IF h.ops[x].kind = "chain"
    THEN OpEval(h, h.ops[x].b, OpEval(h, h.ops[x].a, src))
    ELSE shared_apply(h.nodes, h.ops[x].data, src)

RECURSIVE OpTrace(_, _)
OpTrace(h, x) ==
    IF h.ops[x].kind = "chain"
    THEN OpTrace(h, h.ops[x].a) \o OpTrace(h, h.ops[x].b)
    ELSE << <<h.nodes[h.ops[x].data].data, h.nodes[h.ops[x].data].apply>> >>

AssertFailed == [outcome |-> "assert", written |-> FALSE, dst |-> <<>>, cbs |-> <<>>,
                 opcalls |-> <<>>]

operator_apply_unchecked(h, x) ==
    IF x = NULL
    THEN [outcome |-> "ub", written |-> FALSE, dst |-> <<>>, cbs |-> <<>>, opcalls |-> <<x>>]
    ELSE [outcome |-> "applied", written |-> TRUE, dst |-> [s \in Val |-> OpEval(h, x, s)],
          cbs |-> OpTrace(h, x), opcalls |-> <<x>>]

operator_p_apply_unchecked(h, x, lambda) ==
    IF x = NULL
    THEN [outcome |-> "ub", written |-> FALSE, dst |-> <<>>, cbs |-> <<>>, opcalls |-> <<x>>]
    ELSE [outcome |-> "applied", written |-> TRUE,
          dst |-> [s \in Val |-> shared_apply_p(h.nodes, h.ops[x].data, lambda, s)],
          cbs |-> << <<h.nodes[h.ops[x].data].data, h.nodes[h.ops[x].data].apply>> >>,
          opcalls |-> <<x>>]

linop_forward_unchecked(h, op) == operator_apply_unchecked(h, op.forward)

linop_adjoint_unchecked(h, op) ==
    IF op.adjoint = NULL THEN AssertFailed ELSE operator_apply_unchecked(h, op.adjoint)

\* mutant: the assertion is missing
linop_normal_unchecked_noAssert(h, op) == operator_apply_unchecked(h, op.normal)

linop_normal_unchecked(h, op) ==
    IF op.normal = NULL THEN AssertFailed ELSE operator_apply_unchecked(h, op.normal)

linop_pinverse_unchecked(h, op, lambda) == operator_p_apply_unchecked(h, op.pinverse, lambda)

\* the declared shapes are unused
linop_forward(h, op, ddims, sdims) == linop_forward_unchecked(h, op)
linop_adjoint(h, op, ddims, sdims) == linop_adjoint_unchecked(h, op)
linop_normal(h, op, ddims, sdims) == linop_normal_unchecked(h, op)

linop_pinverse_iter(h, o, lambda) == linop_pinverse_unchecked(h, o, lambda)

linop_domain(h, op) == operator_domain(h.ops, op.forward)
linop_codomain(h, op) == operator_codomain(h.ops, op.forward)

\* ===================================================================
\* The gradient operator (src/src/linops/grad.c).  A buffer of complex
\* floats is a function from the offsets 0 .. size-1 (in elements, first
\* dimension fastest) to integers; `p + k` is the buffer seen from offset k.
\* The array primitives (num/multind.c, num/flpmath.c, misc) are not part
\* of the sources at hand and are modelled from the specification: the
\* forward difference is zero-filled at the last index of the differenced
\* dimension and the backward difference is its transpose.
\* ===================================================================
MaxExt == 2         \* extents of a dimension are 1 .. MaxExt
MaxCell == 1        \* input cells are 0 .. MaxCell

GradRanks == {1, 2}
RECURSIVE ShapesOfRank(_)
ShapesOfRank(n) ==
    IF n = 0 THEN {<<>>}
    ELSE {Append(sh, e) : sh \in ShapesOfRank(n - 1), e \in 1 .. MaxExt}
GradShapes == UNION {ShapesOfRank(n) : n \in GradRanks}
\* the selection masks over the dimensions of a shape of rank n
Masks(n) == 0 .. (2 ^ n - 1)
Junk == {0, 7}

RECURSIVE bitcount(_)
bitcount(flags) == IF flags = 0 THEN 0 ELSE (flags % 2) + bitcount(flags \div 2)

\* 1 + the index of the lowest set bit, 0 if there is none
RECURSIVE ffs(_)
ffs(flags) ==
    IF flags = 0 THEN 0
    ELSE IF flags % 2 = 1 THEN 1
    ELSE 1 + ffs(flags \div 2)

MD_IS_SET(flags, b) == (flags \div (2 ^ b)) % 2 = 1
MD_CLEAR(flags, b) == IF MD_IS_SET(flags, b) THEN flags - 2 ^ b ELSE flags

md_calc_size(D, dims) == Prod(dims, D)
md_copy_dims(D, dims) == SubSeq(dims, 1, D)

Fill(n, v) == [o \in 0 .. (n - 1) |-> v]
\* the n elements of buf from offset off, and buf with them replaced
ReadAt(buf, off, n) == [o \in 0 .. (n - 1) |-> buf[off + o]]
WriteAt(buf, off, piece, n) ==
    [o \in DOMAIN buf |-> IF off <= o /\ o < off + n THEN piece[o - off] ELSE buf[o]]

\* the index along dimension d (counted from 0) of the element at offset o
Coord(dims, d, o) == (o \div Prod(dims, d)) % dims[d + 1]

md_clear(D, dims) == Fill(md_calc_size(D, dims), 0)

md_zadd(D, dims, a, b) == [o \in 0 .. (md_calc_size(D, dims) - 1) |-> a[o] + b[o]]

\* out[.., c, ..] = in[.., c+1, ..] - in[.., c, ..], and 0 at the last index
md_zfdiff(D, dims, d, in) ==
    [o \in 0 .. (md_calc_size(D, dims) - 1) |->
        IF Coord(dims, d, o) < dims[d + 1] - 1
        THEN in[o + Prod(dims, d)] - in[o]
        ELSE 0]

\* the transpose of md_zfdiff along d
md_zfdiff_backwards(D, dims, d, in) ==
    [o \in 0 .. (md_calc_size(D, dims) - 1) |->
        (IF Coord(dims, d, o) >= 1 THEN in[o - Prod(dims, d)] ELSE 0)
      - (IF Coord(dims, d, o) < dims[d + 1] - 1 THEN in[o] ELSE 0)]

\* ------------------------------------------------- scratch buffers
\* live: the scratch buffers allocated and not released; n: allocations so
\* far in the call; bad: a buffer was released twice or used after release
NoScratch == [live |-> {}, n |-> 0, bad |-> FALSE]
NewScratch(sc) == 1 + Cardinality(sc.live)
md_alloc_sameplace(sc) == [sc EXCEPT !.live = @ \cup {NewScratch(sc)}, !.n = @ + 1]
md_free(sc, t) ==
    IF t \in sc.live THEN [sc EXCEPT !.live = @ \ {t}] ELSE [sc EXCEPT !.bad = TRUE]
Use(sc, t) == IF t \in sc.live THEN sc ELSE [sc EXCEPT !.bad = TRUE]


\* ---------------------------------------------------------- grad_op
\* mutant: every difference is written to the first slice
grad_op_slice_first(i, size) == 0

\* out + i * md_calc_size(D - 1, dims)
grad_op_slice(i, size) == i * size

\* the loop of grad_op from iteration i on; tr lists <<slice, dimension>>
RECURSIVE grad_op_loop(_, _, _, _, _, _, _)
grad_op_loop(i, N, flags2, D, dims, out, in) ==
    IF i >= N
    THEN [out |-> out, flags2 |-> flags2, tr |-> <<>>]
    ELSE LET lsb == ffs(flags2) - 1
             size == md_calc_size(D - 1, dims)
             r == grad_op_loop(i + 1, N, MD_CLEAR(flags2, lsb), D, dims,
                               WriteAt(out, grad_op_slice(i, size),
                                       md_zfdiff(D - 1, dims, lsb, in), size),
                               in)
         IN  [r EXCEPT !.tr = << <<i, lsb>> >> \o @]

grad_op(D, dims, flags, out, in) ==
    LET N == bitcount(flags) IN
    IF N # dims[D]
    THEN [outcome |-> "assert:N", out |-> out, tr |-> <<>>]
    ELSE LET r == grad_op_loop(0, N, flags, D, dims, out, in) IN
         [outcome |-> IF r.flags2 = 0 THEN "ok" ELSE "assert:flags2",
          out |-> r.out, tr |-> r.tr]

\* ----------------------------------------------------- grad_adjoint
\* mutant: every iteration reads the first slice
grad_adjoint_slice_first(i, size) == 0

\* in + i * md_calc_size(D - 1, dims)
grad_adjoint_slice(i, size) == i * size

\* mutant: out is not cleared
grad_adjoint_clear_skipped(D, dims, out) == ReadAt(out, 0, md_calc_size(D - 1, dims))

\* md_clear(D - 1, dims, out, CFL_SIZE)
grad_adjoint_clear(D, dims, out) == md_clear(D - 1, dims)

\* the loop of grad_adjoint from iteration i on; t is the scratch buffer tmp
RECURSIVE grad_adjoint_loop(_, _, _, _, _, _, _, _, _)
grad_adjoint_loop(i, N, flags2, D, dims, out, in, sc, t) ==
    IF i >= N
    THEN [out |-> out, flags2 |-> flags2, tr |-> <<>>, sc |-> sc]
    ELSE LET lsb == ffs(flags2) - 1
             size == md_calc_size(D - 1, dims)
             tmp == md_zfdiff_backwards(D - 1, dims, lsb,
                                        ReadAt(in, grad_adjoint_slice(i, size), size))
             r == grad_adjoint_loop(i + 1, N, MD_CLEAR(flags2, lsb), D, dims,
                                    md_zadd(D - 1, dims, out, tmp), in, Use(sc, t), t)
         IN  [r EXCEPT !.tr = << <<i, lsb>> >> \o @]

grad_adjoint(sc, D, dims, flags, out, in) ==
    LET N == bitcount(flags) IN
    IF N # dims[D]
    THEN [sc |-> sc, outcome |-> "assert:N", out |-> out, tr |-> <<>>]
    ELSE LET t == NewScratch(sc)
             r == grad_adjoint_loop(0, N, flags, D, dims, grad_adjoint_clear(D, dims, out),
                                    in, md_alloc_sameplace(sc), t)
         IN  [sc |-> md_free(r.sc, t),
              outcome |-> IF r.flags2 = 0 THEN "ok" ELSE "assert:flags2",
              out |-> r.out, tr |-> r.tr]

\* ------------------------------------------------------------- grad
\* the sum of the squares over the dimensions selected by flags: the
\* radicand of the root-sum-of-squares md_zrss stores (dst has extent 1 in
\* the dimensions reduced)
RssDims(D, dims, flags) == [k \in 1 .. D |-> IF MD_IS_SET(flags, k - 1) THEN 1 ELSE dims[k]]
\* the offset in a buffer of shape rdims of the element src offset o goes to
RECURSIVE RssOffset(_, _, _, _)
RssOffset(k, dims, rdims, o) ==
    IF k = 0 THEN 0
    ELSE RssOffset(k - 1, dims, rdims, o)
         + (IF rdims[k] = 1 THEN 0 ELSE Coord(dims, k - 1, o) * Prod(rdims, k - 1))
RECURSIVE SumSquares(_, _)
SumSquares(src, O) ==
    IF O = {} THEN 0
    ELSE LET o == CHOOSE x \in O : TRUE IN src[o] * src[o] + SumSquares(src, O \ {o})
md_zrss(D, dims, flags, src) ==
    LET rdims == RssDims(D, dims, flags) IN
    [q \in 0 .. (md_calc_size(D, rdims) - 1) |->
        SumSquares(src, {o \in 0 .. (md_calc_size(D, dims) - 1) :
                             RssOffset(D, dims, rdims, o) = q})]

grad(sc, D, dims, flags, out, in, junk) ==
    LET N == bitcount(flags)
        dims2 == Append(md_copy_dims(D, dims), N)
        t == NewScratch(sc)
        sc1 == md_alloc_sameplace(sc)
        r == grad_op(D + 1, dims2, flags, Fill(md_calc_size(D + 1, dims2), junk), in)
    IN  IF r.outcome # "ok"
        THEN [sc |-> sc1, outcome |-> r.outcome, out |-> out, tr |-> r.tr]
        ELSE LET rss == md_zrss(D + 1, dims2, flags, r.out)
             IN  [sc |-> md_free(Use(sc1, t), t), outcome |-> "ok",
                  out |-> WriteAt(out, 0, rss, md_calc_size(D + 1, RssDims(D + 1, dims2, flags))),
                  tr |-> r.tr]

\* ------------------------------------------- the operator (struct grad_s)
NoData == [N |-> 0, dims |-> <<>>, flags |-> 0]

grad_op_apply(data, dst, src) == grad_op(data.N, data.dims, data.flags, dst, src)

grad_op_adjoint(sc, data, dst, src) ==
    grad_adjoint(sc, data.N, data.dims, data.flags, dst, src)

\* mutant: the forward pass is left out
grad_op_normal_noForward(sc, data, dst, src, junk) ==
    LET t == NewScratch(sc)
        sc1 == md_alloc_sameplace(sc)
        r2 == grad_adjoint(Use(sc1, t), data.N, data.dims, data.flags, dst,
                           Fill(md_calc_size(data.N, data.dims), junk))
    IN  [r2 EXCEPT !.sc = md_free(r2.sc, t)]

\* mutant: tmp is not released
grad_op_normal_noFree(sc, data, dst, src, junk) ==
    LET t == NewScratch(sc)
        sc1 == md_alloc_sameplace(sc)
        r1 == grad_op(data.N, data.dims, data.flags,
                      Fill(md_calc_size(data.N, data.dims), junk), src)
    IN  IF r1.outcome # "ok"
        THEN [sc |-> sc1, outcome |-> r1.outcome, out |-> dst, tr |-> r1.tr]
        ELSE LET r2 == grad_adjoint(Use(sc1, t), data.N, data.dims, data.flags, dst, r1.out)
             IN  [r2 EXCEPT !.tr = r1.tr \o r2.tr]

\* junk is what the fresh tmp holds
grad_op_normal(sc, data, dst, src, junk) ==
    LET t == NewScratch(sc)
        sc1 == md_alloc_sameplace(sc)
        r1 == grad_op(data.N, data.dims, data.flags,
                      Fill(md_calc_size(data.N, data.dims), junk), src)
    IN  IF r1.outcome # "ok"
        THEN [sc |-> sc1, outcome |-> r1.outcome, out |-> dst, tr |-> r1.tr]
        ELSE LET r2 == grad_adjoint(Use(sc1, t), data.N, data.dims, data.flags, dst, r1.out)
             IN  IF r2.outcome # "ok"
                 THEN [r2 EXCEPT !.tr = r1.tr \o r2.tr]
                 ELSE [r2 EXCEPT !.sc = md_free(r2.sc, t), !.tr = r1.tr \o r2.tr]

\* mutant: the trailing extent is the rank
grad_init_rank(N, dims, flags) ==
    LET data == [N |-> N + 1, dims |-> Append(md_copy_dims(N, dims), N), flags |-> flags]
    IN  [data |-> data, cod |-> data.dims, dom |-> dims,
         forward |-> "grad_op_apply", adjoint |-> "grad_op_adjoint",
         normal |-> "grad_op_normal", pinverse |-> NULL, del |-> "grad_op_free"]

\* the data and what linop_create is given: codomain data->dims of rank N + 1,
\* domain dims of rank N, the three callbacks, no pseudo-inverse
grad_init(N, dims, flags) ==
    LET data == [N |-> N + 1, dims |-> Append(md_copy_dims(N, dims), bitcount(flags)),
                 flags |-> flags]
    IN  [data |-> data, cod |-> data.dims, dom |-> dims,
         forward |-> "grad_op_apply", adjoint |-> "grad_op_adjoint",
         normal |-> "grad_op_normal", pinverse |-> NULL, del |-> "grad_op_free"]

\* grad_op_free releases the dimensions and the data
grad_op_free(data) == NoData


\* the state of the gradient operator and of its last calls
NoFwd == [done |-> FALSE, in |-> <<>>, out |-> <<>>]
NoGCall == [call |-> "none", D |-> 0, dims |-> <<>>, flags |-> 0, in |-> <<>>, junk |-> 0,
            outcome |-> "none", out |-> <<>>, tr |-> <<>>, n |-> 0]
NoArg == [dims |-> <<>>, flags |-> 0]
NoGrad == [built |-> FALSE, arg |-> NoArg, data |-> NoData, dom |-> <<>>, cod |-> <<>>,
           fwd |-> NoFwd, c |-> NoGCall, live |-> {}, bad |-> FALSE, fatal |-> FALSE]

\* the input arrays of a shape: constant, one cell set, the index along a
\* dimension
Inputs(D, dims) ==
    LET n == md_calc_size(D, dims) IN
    {Fill(n, v) : v \in 0 .. MaxCell}
    \cup {[Fill(n, 0) EXCEPT ![k] = v] : k \in 0 .. (n - 1), v \in 1 .. MaxCell}
    \cup {[o \in 0 .. (n - 1) |-> Coord(dims, d, o)] : d \in 0 .. (D - 1)}


\* ------------------------------------------------------------ actions
Init ==
    /\ nodes = [d \in NodeIds |-> UnallocNode]
    /\ ops = <<>>
    /\ linops = <<>>
    /\ delCount = [p \in Payloads |-> 0]
    /\ nCreated = 0
    /\ fatal = "none"
    /\ last = NoCall
    /\ given = <<>>
    /\ gst = NoGrad

Running == fatal = "none"
Live == {l \in 1 .. Len(linops) : linops[l].st = "live"}
NDerived == Cardinality({l \in 1 .. Len(linops) : linops[l].kind \in {"clone", "chain"}})

SetHeap(h) ==
    /\ nodes' = h.nodes
    /\ ops' = h.ops
    /\ delCount' = h.dels
    /\ fatal' = h.fatal

\* the arguments of a construction, kept for the properties
Given(odims, ostrs, idims, istrs, forward, adjoint, normal, pinverse) ==
    [odims |-> odims, ostrs |-> ostrs, idims |-> idims, istrs |-> istrs,
     forward |-> forward, adjoint |-> adjoint, normal |-> normal, pinverse |-> pinverse]

\* a caller builds an operator with linop_create
Create(odims, idims, forward, adjoint, normal, pinverse) ==
    /\ Running
    /\ nCreated < MaxCreate
    /\ LET data == nCreated + 1
           r == linop_create(Heap, odims, idims, data, forward, adjoint, normal, pinverse, data)
       IN  /\ SetHeap(r.h)
           /\ linops' = IF r.lo.st = "none" THEN linops ELSE Append(linops, r.lo)
    /\ nCreated' = nCreated + 1
    /\ last' = NoCall
    /\ given' = Append(given, Given(odims, md_calc_strides(odims, CFL_SIZE),
                                    idims, md_calc_strides(idims, CFL_SIZE),
                                    forward, adjoint, normal, pinverse))
    /\ UNCHANGED gst

\* a caller builds an operator with linop_create2, with strides of its own
Create2(odims, ostrs, idims, istrs, forward, adjoint, normal, pinverse) ==
    /\ Running
    /\ nCreated < MaxCreate
    /\ LET data == nCreated + 1
           r == linop_create2(Heap, odims, ostrs, idims, istrs, data,
                              forward, adjoint, normal, pinverse, data)
       IN  /\ SetHeap(r.h)
           /\ linops' = IF r.lo.st = "none" THEN linops ELSE Append(linops, r.lo)
    /\ nCreated' = nCreated + 1
    /\ last' = NoCall
    /\ given' = Append(given, Given(odims, ostrs, idims, istrs,
                                    forward, adjoint, normal, pinverse))
    /\ UNCHANGED gst

Clone(l) ==
    /\ Running
    /\ NDerived < MaxDerived
    /\ LET r == linop_clone(Heap, linops[l])
       IN  /\ SetHeap(r.h)
           /\ linops' = Append(linops, [r.lo EXCEPT !.a = l])
    /\ last' = NoCall
    /\ UNCHANGED <<nCreated, given, gst>>

\* operator_chain requires the codomain of a to be the domain of b
Chain(la, lb) ==
    /\ Running
    /\ NDerived < MaxDerived
    /\ linop_codomain(Heap, linops[la]) = linop_domain(Heap, linops[lb])
    /\ LET r == linop_chain(Heap, linops[la], linops[lb])
       IN  /\ SetHeap(r.h)
           /\ linops' = Append(linops, [r.lo EXCEPT !.a = la, !.b = lb])
    /\ last' = NoCall
    /\ UNCHANGED <<nCreated, given, gst>>

Free(l) ==
    /\ Running
    /\ SetHeap(linop_free(Heap, linops[l]))
    /\ linops' = [linops EXCEPT ![l].st = "freed"]
    /\ last' = NoCall
    /\ UNCHANGED <<nCreated, given, gst>>

\* an application call: the heap is left as it is, so the state after two
\* applications in a row is the state after the second alone, and the model
\* takes an application only from a state without one; a failed assertion ends
\* the process; a null operator handed to the operator layer is undefined
\* behaviour, which either faults or goes on, with dst written or not
Record(call, l, lambda, ddims, sdims, r) ==
    /\ last.call = "none"
    /\ \E w \in (IF r.outcome = "ub" THEN BOOLEAN ELSE {r.written}) :
           last' = [call |-> call, l |-> l, lambda |-> lambda, ddims |-> ddims,
                    sdims |-> sdims, outcome |-> r.outcome, written |-> w,
                    dst |-> r.dst, cbs |-> r.cbs, opcalls |-> r.opcalls]
    /\ fatal' \in (IF r.outcome = "assert" THEN {"assert:apply"}
                   ELSE IF r.outcome = "ub" THEN {"fault", "none"}
                   ELSE {"none"})
    /\ UNCHANGED <<nodes, ops, linops, delCount, nCreated, given, gst>>

ForwardUnchecked(l) ==
    Running /\ Record("linop_forward_unchecked", l, 0, <<>>, <<>>,
                      linop_forward_unchecked(Heap, linops[l]))

AdjointUnchecked(l) ==
    Running /\ Record("linop_adjoint_unchecked", l, 0, <<>>, <<>>,
                      linop_adjoint_unchecked(Heap, linops[l]))

NormalUnchecked(l) ==
    Running /\ Record("linop_normal_unchecked", l, 0, <<>>, <<>>,
                      linop_normal_unchecked(Heap, linops[l]))

PinverseUnchecked(l, lambda) ==
    Running /\ Record("linop_pinverse_unchecked", l, lambda, <<>>, <<>>,
                      linop_pinverse_unchecked(Heap, linops[l], lambda))

PinverseIter(l, lambda) ==
    Running /\ Record("linop_pinverse_iter", l, lambda, <<>>, <<>>,
                      linop_pinverse_iter(Heap, linops[l], lambda))

Forward(l, ddims, sdims) ==
    Running /\ Record("linop_forward", l, 0, ddims, sdims,
                      linop_forward(Heap, linops[l], ddims, sdims))

Adjoint(l, ddims, sdims) ==
    Running /\ Record("linop_adjoint", l, 0, ddims, sdims,
                      linop_adjoint(Heap, linops[l], ddims, sdims))

Normal(l, ddims, sdims) ==
    Running /\ Record("linop_normal", l, 0, ddims, sdims,
                      linop_normal(Heap, linops[l], ddims, sdims))

\* the operator layer releases one handle of an operator on its own (as a
\* holder of the last reference to it does), in any order
Handle(op, slot) ==
    CASE slot = "forward" -> op.forward
      [] slot = "adjoint" -> op.adjoint
      [] slot = "normal" -> op.normal
      [] OTHER -> op.pinverse

ReleaseHandle(l, slot) ==
    /\ Running
    /\ linops[l].st \in {"live", "torn"}
    /\ Handle(linops[l], slot) # NULL
    /\ slot \notin linops[l].rel
    /\ SetHeap(operator_free(Heap, Handle(linops[l], slot)))
    /\ linops' = [linops EXCEPT ![l].rel = @ \cup {slot}, ![l].lastRel = slot,
                                ![l].st = "torn"]
    /\ last' = NoCall
    /\ UNCHANGED <<nCreated, given, gst>>

SlotSet == {Slots[i] : i \in 1 .. 4}

CreateAny ==
    \E odims \in ShapeSet, idims \in ShapeSet :
      \E f \in ForwardChoices(nCreated + 1), g \in AdjointChoices(nCreated + 1) :
        \E n \in NormalChoices(f, g), p \in PinverseChoices :
            Create(odims, idims, f, g, n, p)

\* the strides a caller gives for a shape: contiguous, or all zero
StrideChoices(dims) == {md_calc_strides(dims, CFL_SIZE), [i \in 1 .. Len(dims) |-> 0]}

Create2Any ==
    \E odims \in ShapeSet, idims \in ShapeSet :
      \E ostrs \in StrideChoices(odims), istrs \in StrideChoices(idims) :
        \E f \in ForwardChoices(nCreated + 1), g \in AdjointChoices(nCreated + 1) :
          \E n \in NormalChoices(f, g), p \in PinverseChoices :
              Create2(odims, ostrs, idims, istrs, f, g, n, p)

\* construction, cloning, chaining and release of whole operators
Next ==
    \/ CreateAny
    \/ \E l \in Live : Clone(l)
    \/ \E la \in Live, lb \in Live : Chain(la, lb)
    \/ \E l \in Live : Free(l)

Spec == Init /\ [][Next]_vars

\* construction, then release of single handles in any order
NextRing ==
    \/ CreateAny
    \/ \E l \in 1 .. Len(linops), slot \in SlotSet : ReleaseHandle(l, slot)

SpecRing == Init /\ [][NextRing]_vars

\* construction with strides of the caller's choice, and release
NextCreate2 ==
    \/ Create2Any
    \/ \E l \in Live : Free(l)

SpecCreate2 == Init /\ [][NextCreate2]_vars

\* construction, cloning, chaining and application
NextApply ==
    \/ CreateAny
    \/ \E l \in Live : Clone(l)
    \/ \E la \in Live, lb \in Live : Chain(la, lb)
    \/ \E l \in Live : ForwardUnchecked(l)
    \/ \E l \in Live : AdjointUnchecked(l)
    \/ \E l \in Live : NormalUnchecked(l)
    \/ \E l \in Live, lambda \in Lambdas : PinverseUnchecked(l, lambda)
    \/ \E l \in Live, lambda \in Lambdas : PinverseIter(l, lambda)
    \/ \E l \in Live, ddims \in ShapeSet, sdims \in ShapeSet : Forward(l, ddims, sdims)
    \/ \E l \in Live, ddims \in ShapeSet, sdims \in ShapeSet : Adjoint(l, ddims, sdims)
    \/ \E l \in Live, ddims \in ShapeSet, sdims \in ShapeSet : Normal(l, ddims, sdims)

SpecApply == Init /\ [][NextApply]_vars

\* ------------------------------------------------ actions: gradient
GradRunning == ~gst.fatal
OldVars == <<nodes, ops, linops, delCount, nCreated, fatal, last, given>>
GCall(call, D, dims, flags, in, junk, r, n) ==
    [call |-> call, D |-> D, dims |-> dims, flags |-> flags, in |-> in, junk |-> junk,
     outcome |-> r.outcome, out |-> r.out, tr |-> r.tr, n |-> n]
\* the scratch the call starts with
Scratch == [live |-> gst.live, n |-> 0, bad |-> gst.bad]

GradInit(dims, flags) ==
    /\ GradRunning
    /\ ~gst.built
    /\ LET r == grad_init(Len(dims), dims, flags)
       IN  gst' = [gst EXCEPT !.built = TRUE, !.arg = [dims |-> dims, flags |-> flags],
                              !.data = r.data, !.dom = r.dom,
                              !.cod = r.cod, !.fwd = NoFwd, !.c = NoGCall]
    /\ UNCHANGED OldVars

GradFree ==
    /\ GradRunning
    /\ gst.built
    /\ gst' = [gst EXCEPT !.built = FALSE, !.arg = NoArg,
                          !.data = grad_op_free(gst.data), !.dom = <<>>,
                          !.cod = <<>>, !.fwd = NoFwd, !.c = NoGCall]
    /\ UNCHANGED OldVars

\* linop_forward on the operator: grad_op_apply with its data
GradForward(src, junk) ==
    /\ GradRunning
    /\ gst.built
    /\ LET dst == Fill(md_calc_size(Len(gst.cod), gst.cod), junk)
           r == grad_op_apply(gst.data, dst, src)
       IN  gst' = [gst EXCEPT !.fwd = [done |-> r.outcome = "ok", in |-> src, out |-> r.out],
                              !.c = GCall("forward", gst.data.N, gst.data.dims,
                                          gst.data.flags, src, junk, r, 0),
                              !.fatal = r.outcome # "ok"]
    /\ UNCHANGED OldVars

GradAdjoint(src, junk) ==
    /\ GradRunning
    /\ gst.built
    /\ LET dst == Fill(md_calc_size(Len(gst.dom), gst.dom), junk)
           r == grad_op_adjoint(Scratch, gst.data, dst, src)
       IN  gst' = [gst EXCEPT !.c = GCall("adjoint", gst.data.N, gst.data.dims,
                                          gst.data.flags, src, junk, r, r.sc.n),
                              !.live = r.sc.live, !.bad = r.sc.bad,
                              !.fatal = r.outcome # "ok"]
    /\ UNCHANGED OldVars

GradNormal(src, junk) ==
    /\ GradRunning
    /\ gst.built
    /\ LET dst == Fill(md_calc_size(Len(gst.dom), gst.dom), junk)
           r == grad_op_normal(Scratch, gst.data, dst, src, junk)
       IN  gst' = [gst EXCEPT !.c = GCall("normal", gst.data.N, gst.data.dims,
                                          gst.data.flags, src, junk, r, r.sc.n),
                              !.live = r.sc.live, !.bad = r.sc.bad,
                              !.fatal = r.outcome # "ok"]
    /\ UNCHANGED OldVars

\* the functions called on their own, with dimensions of the caller's choice;
\* they do not touch an operator, and what they do depends on the state only
\* through the scratch buffers: the model takes them when there is no
\* operator and no call on record (initially, and after grad_op_free)
GradOpCall(dims, flags, in, junk) ==
    /\ GradRunning
    /\ ~gst.built
    /\ gst.c.call = "none"
    /\ LET D == Len(dims)
           r == grad_op(D, dims, flags, Fill(md_calc_size(D, dims), junk), in)
       IN  gst' = [gst EXCEPT !.c = GCall("grad_op", D, dims, flags, in, junk, r, 0),
                              !.fatal = r.outcome # "ok"]
    /\ UNCHANGED OldVars

GradAdjointCall(dims, flags, in, junk) ==
    /\ GradRunning
    /\ ~gst.built
    /\ gst.c.call = "none"
    /\ LET D == Len(dims)
           r == grad_adjoint(Scratch, D, dims, flags,
                             Fill(md_calc_size(D - 1, dims), junk), in)
       IN  gst' = [gst EXCEPT !.c = GCall("grad_adjoint", D, dims, flags, in, junk, r, r.sc.n),
                              !.live = r.sc.live, !.bad = r.sc.bad,
                              !.fatal = r.outcome # "ok"]
    /\ UNCHANGED OldVars

\* out has the shape md_zrss writes
GradMagnitude(dims, flags, in, junk) ==
    /\ GradRunning
    /\ ~gst.built
    /\ gst.c.call = "none"
    /\ LET D == Len(dims)
           dims2 == Append(dims, bitcount(flags))
           r == grad(Scratch, D, dims, flags,
                     Fill(md_calc_size(D + 1, RssDims(D + 1, dims2, flags)), junk), in, junk)
       IN  gst' = [gst EXCEPT !.c = GCall("grad", D, dims, flags, in, junk, r, r.sc.n),
                              !.live = r.sc.live, !.bad = r.sc.bad,
                              !.fatal = r.outcome # "ok"]
    /\ UNCHANGED OldVars

\* a gradient operator is built, applied and released, and the gradient
\* functions are called on their own
NextGrad ==
    \/ \E dims \in GradShapes : \E flags \in Masks(Len(dims)) : GradInit(dims, flags)
    \/ GradFree
    \/ \E junk \in Junk : \E src \in Inputs(Len(gst.dom), gst.dom) : GradForward(src, junk)
    \/ \E junk \in Junk : \E src \in Inputs(Len(gst.cod), gst.cod) : GradAdjoint(src, junk)
    \/ \E junk \in Junk : \E src \in Inputs(Len(gst.dom), gst.dom) : GradNormal(src, junk)
    \/ \E sh \in GradShapes : \E k \in 0 .. Len(sh), flags \in Masks(Len(sh)), junk \in Junk :
          \E in \in Inputs(Len(sh), sh) : GradOpCall(Append(sh, k), flags, in, junk)
    \/ \E sh \in GradShapes : \E k \in 0 .. Len(sh), flags \in Masks(Len(sh)), junk \in Junk :
          \E in \in Inputs(Len(sh) + 1, Append(sh, k)) :
              GradAdjointCall(Append(sh, k), flags, in, junk)
    \/ \E sh \in GradShapes : \E flags \in Masks(Len(sh)), junk \in Junk :
          \E in \in Inputs(Len(sh), sh) : GradMagnitude(sh, flags, in, junk)

SpecGrad == Init /\ [][NextGrad]_vars

\* ------------------------------------------------ properties: lifetime
LinopIds == 1 .. Len(linops)
Present(op) == {slot \in SlotSet : Handle(op, slot) # NULL}
\* the operator objects that share payload p
Holders(p) == {l \in LinopIds : p \in linops[l].payloads}
PayloadOf(l) == CHOOSE p \in linops[l].payloads : TRUE
OpLive(x) == x # NULL /\ ops[x].kind # "freed" /\ ops[x].ref >= 1

\* C1: an operator built by linop_create2, with any of normal and pinverse
\* absent: the deleter has not run after construction, nor while a handle of
\* the ring is unreleased, and it has run exactly once when the last one has
\* been released, in whatever order the handles are released.
C1_DeleterOnceAtLastRelease ==
    /\ \A l \in LinopIds :
         linops[l].kind = "create" =>
            /\ {"forward", "adjoint"} \subseteq Present(linops[l])
            /\ delCount[PayloadOf(l)] =
                  IF Present(linops[l]) \subseteq linops[l].rel THEN 1 ELSE 0
    /\ fatal \notin {"assert:shared_del", "fault:released-twice"}

\* a ring without normal and with pinverse, released pinverse first and
\* forward last: the deleter has run once
C1_Witness ==
    \E l \in LinopIds :
        /\ linops[l].kind = "create"
        /\ Present(linops[l]) = {"forward", "adjoint", "pinverse"}
        /\ linops[l].rel = Present(linops[l])
        /\ linops[l].lastRel = "forward"
        /\ delCount[PayloadOf(l)] = 1

\* C2: clones and frees, each operator object freed at most once: the deleter
\* of a payload held only by an operator and its clones has not run while one
\* of them is un-freed, and has run exactly once when all are freed.
C2_CloneFreeDeleterOnce ==
    \A p \in 1 .. nCreated :
        (Holders(p) # {} /\ \A l \in Holders(p) : linops[l].kind \in {"create", "clone"}) =>
            delCount[p] = IF \A l \in Holders(p) : linops[l].st = "freed" THEN 1 ELSE 0

\* an operator without normal, and its clone, both freed: deleted once
C2_Witness ==
    \E l \in LinopIds :
        /\ linops[l].kind = "clone"
        /\ linops[l].normal = NULL
        /\ linops[l].st = "freed"
        /\ linops[linops[l].a].st = "freed"
        /\ delCount[PayloadOf(l)] = 1

\* l is c, a clone of it, or a chain over it (to any depth): l holds references
\* to c's handles
RECURSIVE DerivesFrom(_, _)
DerivesFrom(l, c) ==
    \/ l = c
    \/ linops[l].kind = "clone" /\ DerivesFrom(linops[l].a, c)
    \/ linops[l].kind = "chain" /\ (DerivesFrom(linops[l].a, c) \/ DerivesFrom(linops[l].b, c))

AllFreed(S) == \A l \in S : linops[l].st = "freed"

\* C3: C = linop_chain(A, B).  While A (or B) is un-freed its handles are live
\* operators and its deleter has not run, whether or not C has been freed;
\* once C (and whatever was cloned or chained from it) is freed, C's forward,
\* adjoint and normal are released, and no composed operator, the temporary
\* top included, outlives the last chained operator; and the deleter of a
\* payload of A or B has run exactly once when its owners and C are all freed,
\* and not before.
C3_ChainFreeFrame ==
    \A c \in LinopIds :
        linops[c].kind = "chain" =>
            /\ \A x \in {linops[c].a, linops[c].b} :
                 linops[x].st = "live" =>
                    /\ \A slot \in Present(linops[x]) : OpLive(Handle(linops[x], slot))
                    /\ \A p \in linops[x].payloads : delCount[p] = 0
            /\ AllFreed({l \in LinopIds : DerivesFrom(l, c)}) =>
                 \A slot \in Present(linops[c]) : ops[Handle(linops[c], slot)].kind = "freed"
            /\ AllFreed({l \in LinopIds : \E k \in LinopIds :
                                 linops[k].kind = "chain" /\ DerivesFrom(l, k)}) =>
                 \A x \in 1 .. Len(ops) : ops[x].kind # "chain"
            /\ \A p \in linops[c].payloads :
                 delCount[p] = IF AllFreed(Holders(p)) THEN 1 ELSE 0

\* C of two different operators is freed, A and B are not
C3_Witness ==
    \E c \in LinopIds :
        /\ linops[c].kind = "chain"
        /\ linops[c].st = "freed"
        /\ linops[c].a # linops[c].b
        /\ linops[linops[c].a].st = "live"
        /\ linops[linops[c].b].st = "live"
        /\ linops[linops[c].b].normal # NULL


\* --------------------------------------------- properties: application
\* What a transform of an operator is to compute, from the callbacks given at
\* construction: f maps each source value to the result, tr lists the
\* callbacks in the order they are to be invoked, each with its state.
SlotIndex(slot) == CHOOSE i \in 0 .. 3 : Slots[i + 1] = slot
Then(s1, s2) == [f |-> [x \in Val |-> s2.f[s1.f[x]]], tr |-> s1.tr \o s2.tr]

RECURSIVE LinSem(_, _)
LinSem(l, slot) ==
    LET op == linops[l] IN
    IF op.kind = "create"
    THEN LET d == NodeOf(PayloadOf(l), SlotIndex(slot)) IN
         [f |-> [x \in Val |-> CbCall(nodes[d].apply, x)],
          tr |-> << <<nodes[d].data, nodes[d].apply>> >>]
    ELSE IF op.kind = "clone" THEN LinSem(op.a, slot)
    ELSE IF slot = "forward" THEN Then(LinSem(op.a, "forward"), LinSem(op.b, "forward"))
    ELSE IF slot = "adjoint" THEN Then(LinSem(op.b, "adjoint"), LinSem(op.a, "adjoint"))
    ELSE IF linops[op.b].normal = NULL
         THEN Then(LinSem(l, "forward"), LinSem(l, "adjoint"))
         ELSE Then(LinSem(op.a, "forward"),
                   Then(LinSem(op.b, "normal"), LinSem(op.a, "adjoint")))

ForwardCalls == {"linop_forward_unchecked", "linop_forward"}
AdjointCalls == {"linop_adjoint_unchecked", "linop_adjoint"}
NormalCalls == {"linop_normal_unchecked", "linop_normal"}
PinverseCalls == {"linop_pinverse_unchecked", "linop_pinverse_iter"}
CheckedCalls == {"linop_forward", "linop_adjoint", "linop_normal"}
LastOp == linops[last.l]
LastIsChain == last.call # "none" /\ LastOp.kind = "chain"

\* C4: for C = linop_chain(A, B), C.forward applied to x gives
\* B.forward(A.forward(x)) and C.adjoint applied to y gives
\* A.adjoint(B.adjoint(y)), for every x and y.
C4_ChainComposition ==
    LastIsChain =>
        /\ last.call \in ForwardCalls =>
              /\ last.outcome = "applied"
              /\ \A x \in Val :
                    last.dst[x] = LinSem(LastOp.b, "forward").f[LinSem(LastOp.a, "forward").f[x]]
        /\ last.call \in AdjointCalls =>
              /\ last.outcome = "applied"
              /\ \A y \in Val :
                    last.dst[y] = LinSem(LastOp.a, "adjoint").f[LinSem(LastOp.b, "adjoint").f[y]]

\* the adjoint of a chain of two different operators has been applied
C4_Witness ==
    /\ LastIsChain
    /\ last.call = "linop_adjoint_unchecked"
    /\ LastOp.a # LastOp.b
    /\ last.outcome = "applied"
    /\ \E y \in Val :
          LinSem(LastOp.a, "adjoint").f[LinSem(LastOp.b, "adjoint").f[y]]
             # LinSem(LastOp.b, "adjoint").f[LinSem(LastOp.a, "adjoint").f[y]]

NormalConsistent(l) ==
    \A v \in Val : LinSem(l, "normal").f[v] = LinSem(l, "adjoint").f[LinSem(l, "forward").f[v]]

\* C5: for C = linop_chain(A, B): without B.normal, C.normal is C.forward
\* then C.adjoint; with B.normal, C.normal is A.forward, then B.normal, then
\* A.adjoint, and calls exactly their callbacks (A.normal is not consulted);
\* and C.normal(x) = C.adjoint(C.forward(x)) for every x in the first case,
\* and in the second whenever B.normal(v) = B.adjoint(B.forward(v)) for all v.
C5_ChainNormal ==
    (LastIsChain /\ last.call \in NormalCalls) =>
        LET A == LastOp.a
            B == LastOp.b
            AdjFwd == Then(Then(LinSem(A, "forward"), LinSem(B, "forward")),
                           Then(LinSem(B, "adjoint"), LinSem(A, "adjoint")))
            Fused == Then(LinSem(A, "forward"), Then(LinSem(B, "normal"), LinSem(A, "adjoint")))
        IN  /\ last.outcome = "applied"
            /\ linops[B].normal = NULL => (last.dst = AdjFwd.f /\ last.cbs = AdjFwd.tr)
            /\ linops[B].normal # NULL =>
                  /\ last.dst = Fused.f
                  /\ last.cbs = Fused.tr
                  /\ NormalConsistent(B) => last.dst = AdjFwd.f

\* the fused normal of a chain of two different operators has been applied,
\* B.normal being adjoint after forward and A.normal not
C5_Witness ==
    /\ LastIsChain
    /\ last.call = "linop_normal_unchecked"
    /\ LastOp.a # LastOp.b
    /\ linops[LastOp.b].normal # NULL
    /\ NormalConsistent(LastOp.b)
    /\ linops[LastOp.a].normal # NULL
    /\ ~NormalConsistent(LastOp.a)
    /\ last.outcome = "applied"


\* the declared shapes of a checked call disagree with the operator's
ShapeMismatch ==
    LET dom == linop_domain(Heap, LastOp).dims
        cod == linop_codomain(Heap, LastOp).dims
    IN  CASE last.call = "linop_forward" -> last.ddims # cod \/ last.sdims # dom
          [] last.call = "linop_adjoint" -> last.ddims # dom \/ last.sdims # cod
          [] last.call = "linop_normal" -> last.ddims # dom \/ last.sdims # dom
          [] OTHER -> FALSE

\* C6: a checked application (linop_forward, linop_adjoint, linop_normal) whose
\* declared shapes disagree with the operator's domain/codomain fails with a
\* ShapeMismatch error and does not write dst.
C6_CheckedApplyRejectsMismatch ==
    (last.call \in CheckedCalls /\ ShapeMismatch) =>
        (last.outcome = "ShapeMismatch" /\ ~last.written /\ last.cbs = <<>>)

\* C7: applying the pseudo-inverse of an operator that has none fails on an
\* assertion of this layer, before any apply of the operator layer is
\* attempted and without writing dst.
C7_AbsentPinverseAsserts ==
    (last.call \in PinverseCalls /\ LastOp.pinverse = NULL) =>
        /\ last.outcome = "assert"
        /\ last.opcalls = <<>>
        /\ ~last.written
        /\ fatal # "none"

\* C8: linop_normal_unchecked without a normal, and linop_adjoint_unchecked
\* without an adjoint, fail on an assertion and invoke no callback; with the
\* transform present the call applies exactly that transform's operator; and
\* apply-normal does not fail on an operator constructed with a normal callback
\* or returned by linop_chain.
C8_AbsentNormalAsserts ==
    /\ last.call = "linop_normal_unchecked" =>
          IF LastOp.normal = NULL
          THEN /\ last.outcome = "assert" /\ fatal = "assert:apply"
               /\ last.cbs = <<>> /\ last.opcalls = <<>> /\ ~last.written
          ELSE /\ last.outcome = "applied" /\ fatal = "none"
               /\ last.opcalls = <<LastOp.normal>>
               /\ last.dst = LinSem(last.l, "normal").f
               /\ last.cbs = LinSem(last.l, "normal").tr
    /\ last.call = "linop_adjoint_unchecked" =>
          IF LastOp.adjoint = NULL
          THEN /\ last.outcome = "assert" /\ fatal = "assert:apply"
               /\ last.cbs = <<>> /\ last.opcalls = <<>> /\ ~last.written
          ELSE /\ last.outcome = "applied" /\ fatal = "none"
               /\ last.opcalls = <<LastOp.adjoint>>
               /\ last.dst = LinSem(last.l, "adjoint").f
               /\ last.cbs = LinSem(last.l, "adjoint").tr
    /\ (last.call = "linop_normal_unchecked" /\ last.outcome # "applied") =>
          /\ LastOp.kind # "chain"
          /\ LastOp.kind = "create" => nodes[NodeOf(PayloadOf(last.l), 2)].st = "freed"

\* linop_normal_unchecked has failed on an operator constructed without normal
C8_Witness ==
    /\ last.call = "linop_normal_unchecked"
    /\ LastOp.kind = "create"
    /\ LastOp.normal = NULL
    /\ last.outcome = "assert"
    /\ fatal = "assert:apply"

\* C9: linop_create2 / linop_create with a null forward or a null adjoint
\* callback is fatal: no operator is returned and no handle is created for it.
C9_NullCallbackFatal ==
    \A p \in 1 .. nCreated :
        (nodes[NodeOf(p, 0)].st = "live" /\
            (nodes[NodeOf(p, 0)].apply = NULL \/ nodes[NodeOf(p, 1)].apply = NULL)) =>
               /\ fatal \in {"assert:forward", "assert:adjoint"}
               /\ p = nCreated
               /\ Holders(p) = {}
               /\ \A x \in 1 .. Len(ops) :
                     ops[x].kind \in {"op", "op_p"} => nodes[ops[x].data].data # p

\* a construction with a forward but a null adjoint callback has ended the process
C9_Witness ==
    /\ fatal = "assert:adjoint"
    /\ nodes[NodeOf(nCreated, 0)].apply # NULL
    /\ nodes[NodeOf(nCreated, 1)].apply = NULL
    /\ Len(linops) = nCreated - 1

\* C10: the operator returned by linop_chain(A, B) has forward, adjoint and
\* normal present and pinverse absent, whatever A and B have.
C10_ChainShape ==
    \A c \in LinopIds :
        linops[c].kind = "chain" =>
            /\ Present(linops[c]) = {"forward", "adjoint", "normal"}
            /\ linops[c].st = "live" =>
                  \A slot \in Present(linops[c]) :
                      /\ OpLive(Handle(linops[c], slot))
                      /\ ops[Handle(linops[c], slot)].kind = "chain"

\* a chain of two operators that both have a pseudo-inverse and no normal
C10_Witness ==
    \E c \in LinopIds :
        /\ linops[c].kind = "chain"
        /\ linops[c].st = "live"
        /\ linops[linops[c].a].pinverse # NULL
        /\ linops[linops[c].b].pinverse # NULL
        /\ linops[linops[c].a].normal = NULL
        /\ linops[linops[c].b].normal = NULL


\* ------------------------------------------------- properties: the ring
RingNodes(p) == {NodeOf(p, i) : i \in 0 .. 3}
LiveNodes(p) == {d \in RingNodes(p) : nodes[d].st = "live"}
\* the nodes met from d by following next
FollowNext(d) ==
    {d, nodes[d].next, nodes[nodes[d].next].next, nodes[nodes[nodes[d].next].next].next}

\* C17: after linop_create2 and any single releases of distinct live handles,
\* the live nodes of an operator form one circular doubly-linked list (next and
\* prev are inverse, and following next from a live node visits exactly the
\* live nodes), they share state and deleter, none points to a freed node, and
\* the ring has one member per handle present and not yet released: 2 +
\* [normal given] + [pinverse given] right after construction.
C17_RingWellFormed ==
    /\ \A p \in 1 .. nCreated :
         \A d \in LiveNodes(p) :
            /\ nodes[d].next \in LiveNodes(p)
            /\ nodes[d].prev \in LiveNodes(p)
            /\ nodes[nodes[d].next].prev = d
            /\ nodes[nodes[d].prev].next = d
            /\ FollowNext(d) = LiveNodes(p)
            /\ nodes[d].data = p
            /\ nodes[d].del = p
    /\ \A l \in LinopIds :
         linops[l].kind = "create" =>
            /\ LiveNodes(PayloadOf(l)) =
                  {NodeOf(PayloadOf(l), SlotIndex(slot)) :
                       slot \in Present(linops[l]) \ linops[l].rel}
            /\ linops[l].rel = {} =>
                  Cardinality(LiveNodes(PayloadOf(l))) =
                     2 + (IF linops[l].normal # NULL THEN 1 ELSE 0)
                       + (IF linops[l].pinverse # NULL THEN 1 ELSE 0)

\* a ring of four from which the adjoint handle alone has been released
C17_Witness ==
    \E l \in LinopIds :
        /\ linops[l].kind = "create"
        /\ Present(linops[l]) = SlotSet
        /\ linops[l].rel = {"adjoint"}
        /\ Cardinality(LiveNodes(PayloadOf(l))) = 3
        /\ nodes[NodeOf(PayloadOf(l), 0)].next = NodeOf(PayloadOf(l), 2)


\* ------------------------------------------- properties: the gradient
OperatorCalls == {"forward", "adjoint", "normal"}
FunctionCalls == {"grad_op", "grad_adjoint"}

\* C11: grad_init(S, mask) registers the domain S and the codomain S with one
\* trailing dimension of extent K = popcount(mask) appended (rank N + 1), so the
\* precondition "trailing extent = popcount(flags)" of grad_op and grad_adjoint
\* holds in every forward, adjoint and normal application of the operator; a
\* call with a trailing extent other than K is rejected by the assertion,
\* before anything is written.
C11_ShapeInvariant ==
    /\ gst.built =>
          /\ gst.dom = gst.arg.dims
          /\ gst.cod = Append(gst.arg.dims, bitcount(gst.arg.flags))
          /\ Len(gst.cod) = Len(gst.arg.dims) + 1
          /\ gst.data.N = Len(gst.cod)
          /\ gst.data.dims = gst.cod
          /\ gst.data.flags = gst.arg.flags
    /\ gst.c.call \in OperatorCalls =>
          /\ gst.c.dims[gst.c.D] = bitcount(gst.c.flags)
          /\ gst.c.outcome = "ok"
          /\ ~gst.fatal
    /\ (gst.c.call \in FunctionCalls /\ gst.c.dims[gst.c.D] # bitcount(gst.c.flags)) =>
          /\ gst.c.outcome = "assert:N"
          /\ gst.fatal
          /\ \A o \in DOMAIN gst.c.out : gst.c.out[o] = gst.c.junk
          /\ gst.c.tr = <<>>

\* the normal transform of an operator over two selected dimensions of extent
\* two has been applied
C11_Witness ==
    /\ gst.built
    /\ gst.arg.dims = <<2, 2>>
    /\ bitcount(gst.arg.flags) = 2
    /\ gst.cod = <<2, 2, 2>>
    /\ gst.c.call = "normal"
    /\ gst.c.outcome = "ok"


\* the dimensions a mask selects, and the i-th of them in ascending order
SelDims(flags, n) == {b \in 0 .. (n - 1) : MD_IS_SET(flags, b)}
IthDim(flags, n, i) ==
    CHOOSE b \in SelDims(flags, n) : Cardinality({a \in SelDims(flags, n) : a < b}) = i
\* the shape and the slice size of the last call
CallShape == SubSeq(gst.c.dims, 1, gst.c.D - 1)
CallSize == md_calc_size(gst.c.D - 1, gst.c.dims)
CallK == bitcount(gst.c.flags)

\* C12: for a mask over valid dimension indices, the forward gradient writes
\* into slice i of the trailing axis the forward finite difference of the
\* input along the i-th lowest set bit of the mask, in ascending order; each
\* selected dimension is differenced exactly once and no other, and the loop
\* ends with the working mask at zero (the final assertion does not fail).
C12_ForwardSlices ==
    (gst.c.call \in {"forward", "grad_op"} /\ gst.c.dims[gst.c.D] = CallK) =>
        /\ gst.c.outcome = "ok"
        /\ Len(gst.c.tr) = CallK
        /\ {gst.c.tr[k][2] : k \in 1 .. Len(gst.c.tr)} = SelDims(gst.c.flags, gst.c.D - 1)
        /\ \A i \in 0 .. (CallK - 1) :
              /\ gst.c.tr[i + 1] = <<i, IthDim(gst.c.flags, gst.c.D - 1, i)>>
              /\ ReadAt(gst.c.out, i * CallSize, CallSize) =
                    md_zfdiff(gst.c.D - 1, gst.c.dims,
                              IthDim(gst.c.flags, gst.c.D - 1, i), gst.c.in)

\* the forward transform over both dimensions of <<2, 2>> has been applied to
\* an input whose differences along the two dimensions differ
C12_Witness ==
    /\ gst.c.call = "forward"
    /\ gst.c.dims = <<2, 2, 2>>
    /\ gst.c.flags = 3
    /\ gst.c.outcome = "ok"
    /\ ReadAt(gst.c.out, 0, 4) # ReadAt(gst.c.out, 4, 4)
    /\ ReadAt(gst.c.out, 4, 4) = md_zfdiff(2, gst.c.dims, 1, gst.c.in)


\* the inner product of two buffers over the same offsets
RECURSIVE DotOver(_, _, _)
DotOver(a, b, O) ==
    IF O = {} THEN 0
    ELSE LET o == CHOOSE x \in O : TRUE IN a[o] * b[o] + DotOver(a, b, O \ {o})
Dot(a, b) == DotOver(a, b, DOMAIN a)

\* C13: dot(forward(x), y) = dot(x, adjoint(y)) for every x over the domain and
\* y over the codomain of the operator (integer arrays, exactly), the backward
\* difference being the transpose of the forward difference along a dimension.
C13_AdjointIdentity ==
    (gst.built /\ gst.fwd.done /\ gst.c.call = "adjoint") =>
        /\ gst.c.outcome = "ok"
        /\ DOMAIN gst.fwd.out = DOMAIN gst.c.in
        /\ DOMAIN gst.fwd.in = DOMAIN gst.c.out
        /\ Dot(gst.fwd.out, gst.c.in) = Dot(gst.fwd.in, gst.c.out)

\* forward of x and adjoint of y over two selected dimensions, with a y that is
\* zero on the first slice and an inner product that is not zero
C13_Witness ==
    /\ gst.built
    /\ gst.fwd.done
    /\ gst.c.call = "adjoint"
    /\ gst.c.dims = <<2, 2, 2>>
    /\ gst.c.flags = 3
    /\ \A o \in 0 .. 3 : gst.c.in[o] = 0
    /\ Dot(gst.fwd.out, gst.c.in) # 0


\* the sum over the slices below k of the backward difference of slice i of
\* the last call's input along the i-th selected dimension
RECURSIVE AdjointSum(_)
AdjointSum(k) ==
    IF k = 0 THEN Fill(CallSize, 0)
    ELSE md_zadd(gst.c.D - 1, gst.c.dims, AdjointSum(k - 1),
                 md_zfdiff_backwards(gst.c.D - 1, gst.c.dims,
                                     IthDim(gst.c.flags, gst.c.D - 1, k - 1),
                                     ReadAt(gst.c.in, (k - 1) * CallSize, CallSize)))

\* C14: the gradient adjoint is the elementwise sum, over the selected
\* dimensions i in ascending order, of the backward difference along the i-th
\* of them of slice i of the input; it does not depend on what the output held
\* before, each slice contributes once, and with no dimension selected the
\* output is all zeros.
C14_AdjointSum ==
    (gst.c.call \in {"adjoint", "grad_adjoint"} /\ gst.c.dims[gst.c.D] = CallK) =>
        /\ gst.c.outcome = "ok"
        /\ gst.c.out = AdjointSum(CallK)
        /\ gst.c.tr = [i \in 1 .. CallK |-> <<i - 1, IthDim(gst.c.flags, gst.c.D - 1, i - 1)>>]
        /\ CallK = 0 => gst.c.out = Fill(CallSize, 0)

\* the adjoint over two selected dimensions, into an output that held 7s, of
\* an input whose two slices both contribute
C14_Witness ==
    /\ gst.c.call = "adjoint"
    /\ gst.c.dims = <<2, 2, 2>>
    /\ gst.c.flags = 3
    /\ gst.c.junk = 7
    /\ gst.c.outcome = "ok"
    /\ gst.c.out # AdjointSum(1)
    /\ AdjointSum(1) # Fill(4, 0)


\* the forward transform of the last call's input, and the adjoint of that
ForwardOfIn ==
    grad_op(gst.c.D, gst.c.dims, gst.c.flags,
            Fill(md_calc_size(gst.c.D, gst.c.dims), 0), gst.c.in)
AdjointOfForward ==
    grad_adjoint(NoScratch, gst.c.D, gst.c.dims, gst.c.flags, Fill(CallSize, 0),
                 ForwardOfIn.out)

\* C15: the normal transform of an operator built by grad_init gives
\* adjoint(forward(x)) for every input x: the forward pass into a temporary of
\* the codomain's shape, then the adjoint pass into dst, which is what the
\* forward handle followed by the adjoint handle gives.
C15_NormalIsAdjointOfForward ==
    gst.c.call = "normal" =>
        /\ gst.c.outcome = "ok"
        /\ ForwardOfIn.outcome = "ok"
        /\ DOMAIN ForwardOfIn.out = 0 .. (md_calc_size(Len(gst.cod), gst.cod) - 1)
        /\ gst.c.out = AdjointOfForward.out
        /\ gst.c.tr = ForwardOfIn.tr \o AdjointOfForward.tr
        /\ DOMAIN gst.c.out = DOMAIN gst.c.in

\* the normal transform over two selected dimensions, into an output that
\* held 7s, with a result that is not zero
C15_Witness ==
    /\ gst.c.call = "normal"
    /\ gst.c.dims = <<2, 2, 2>>
    /\ gst.c.flags = 3
    /\ gst.c.junk = 7
    /\ gst.c.outcome = "ok"
    /\ \E o \in DOMAIN gst.c.out : gst.c.out[o] # 0


\* C16: every scratch buffer allocated in a gradient adjoint, normal or
\* magnitude computation is released before the call ends, also when the call
\* ends in a failed assertion: after any sequence of calls no scratch buffer is
\* outstanding, and none was released twice or used after its release.
C16_ScratchReleased ==
    /\ gst.live = {}
    /\ ~gst.bad
    /\ gst.c.outcome = "ok" =>
          gst.c.n = CASE gst.c.call \in {"adjoint", "grad_adjoint", "grad"} -> 1
                      [] gst.c.call = "normal" -> 2
                      [] OTHER -> 0
    /\ gst.fatal => (gst.c.outcome = "assert:N" /\ gst.c.n = 0)

\* a normal transform has allocated and released its temporary and the
\* scratch buffer of the adjoint pass
C16_Witness ==
    /\ gst.c.call = "normal"
    /\ gst.c.flags = 3
    /\ gst.c.outcome = "ok"
    /\ gst.c.n = 2
    /\ gst.live = {}


\* ------------------------------- properties: one operator and its handles
SlotOfCall(call) ==
    CASE call \in ForwardCalls -> "forward"
      [] call \in AdjointCalls -> "adjoint"
      [] call \in NormalCalls -> "normal"
      [] OTHER -> "pinverse"
\* the callback given for a slot when payload p was constructed
GivenCb(p, slot) ==
    CASE slot = "forward" -> given[p].forward
      [] slot = "adjoint" -> given[p].adjoint
      [] slot = "normal" -> given[p].normal
      [] OTHER -> given[p].pinverse
\* what call c (a record of an application) is to have done on operator op
AppliedAsGiven(c, op) ==
    LET p == CHOOSE q \in op.payloads : TRUE
        slot == SlotOfCall(c.call)
        cb == GivenCb(p, slot)
    IN  /\ c.outcome = "applied"
        /\ c.written
        /\ c.opcalls = <<Handle(op, slot)>>
        /\ c.cbs = << <<p, cb>> >>
        /\ cb # NULL
        /\ \A x \in Val :
              c.dst[x] = IF slot = "pinverse" THEN CbCallP(cb, c.lambda, x)
                         ELSE CbCall(cb, x)

\* C18: applying the forward, adjoint, normal or pseudo-inverse handle of an
\* operator built by linop_create2 invokes the callback given for that slot,
\* once, with the shared state (and lambda, for the pseudo-inverse), and
\* leaves everything else as it was: the ring, the reference counts, which
\* transforms are present, and the domains and codomains.
C18_ApplyFrame ==
    [][(last.call = "none" /\ last'.call # "none"
           /\ linops[last'.l].kind = "create"
           /\ Handle(linops[last'.l], SlotOfCall(last'.call)) # NULL)
        => (/\ AppliedAsGiven(last', linops[last'.l])
            /\ UNCHANGED <<nodes, ops, linops, delCount, nCreated, fatal, given>>)]_vars

\* the pseudo-inverse of a constructed operator has been applied with lambda = 1
C18_Witness ==
    /\ last.call = "linop_pinverse_unchecked"
    /\ last.lambda = 1
    /\ LastOp.kind = "create"
    /\ LastOp.normal # NULL
    /\ last.outcome = "applied"
    /\ last.dst # [x \in Val |-> CbCall(GivenCb(PayloadOf(last.l), "pinverse"), x)]


\* C19: for an operator built by linop_create2 with codomain (odims, ostrs)
\* and domain (idims, istrs), the forward handle maps the domain to the
\* codomain, the adjoint the codomain to the domain, the normal (if given) the
\* domain to itself, the pseudo-inverse (if given) the codomain to the domain,
\* and linop_domain and linop_codomain return the shapes and strides given.
C19_HandleShapes ==
    \A l \in LinopIds :
        (linops[l].kind = "create" /\ linops[l].st = "live") =>
            LET op == linops[l]
                gv == given[PayloadOf(l)]
                dom == iovec(gv.idims, gv.istrs)
                cod == iovec(gv.odims, gv.ostrs)
            IN  /\ operator_domain(ops, op.forward) = dom
                /\ operator_codomain(ops, op.forward) = cod
                /\ operator_domain(ops, op.adjoint) = cod
                /\ operator_codomain(ops, op.adjoint) = dom
                /\ op.normal # NULL =>
                      /\ operator_domain(ops, op.normal) = dom
                      /\ operator_codomain(ops, op.normal) = dom
                /\ op.pinverse # NULL =>
                      /\ operator_domain(ops, op.pinverse) = cod
                      /\ operator_codomain(ops, op.pinverse) = dom
                /\ linop_domain(Heap, op) = dom
                /\ linop_codomain(Heap, op) = cod
                /\ (op.normal # NULL) = (gv.normal # NULL)
                /\ (op.pinverse # NULL) = (gv.pinverse # NULL)

\* an operator with all four transforms, different shapes for domain and
\* codomain, and strides that are not the contiguous ones
C19_Witness ==
    \E l \in LinopIds :
        /\ linops[l].kind = "create"
        /\ linops[l].st = "live"
        /\ Present(linops[l]) = SlotSet
        /\ given[PayloadOf(l)].odims # given[PayloadOf(l)].idims
        /\ given[PayloadOf(l)].ostrs # md_calc_strides(given[PayloadOf(l)].odims, CFL_SIZE)
        /\ given[PayloadOf(l)].istrs = md_calc_strides(given[PayloadOf(l)].idims, CFL_SIZE)


\* the un-freed operator objects that share payload p
LiveHolders(p) == {l \in Holders(p) : linops[l].st = "live"}

\* C20: linop_clone and linop_free with normal and/or pinverse absent: a clone
\* has the handles of its source, present where the source's are and absent
\* where they are absent; each present handle is referenced once per un-freed
\* holder and released when the last holder is freed, the deleter then having
\* run once; nothing faults.
C20_CloneFreeAbsent ==
    /\ fatal \in {"none", "assert:forward", "assert:adjoint"}
    /\ \A l \in LinopIds :
         linops[l].kind = "clone" =>
            /\ \A slot \in SlotSet : Handle(linops[l], slot) = Handle(linops[linops[l].a], slot)
            /\ Present(linops[l]) = Present(linops[linops[l].a])
    /\ \A l \in LinopIds :
         (linops[l].kind = "create"
            /\ \A k \in Holders(PayloadOf(l)) : linops[k].kind \in {"create", "clone"}) =>
            LET n == Cardinality(LiveHolders(PayloadOf(l))) IN
            /\ \A slot \in Present(linops[l]) :
                  IF n = 0 THEN ops[Handle(linops[l], slot)].kind = "freed"
                  ELSE /\ ops[Handle(linops[l], slot)].kind # "freed"
                       /\ ops[Handle(linops[l], slot)].ref = n
            /\ delCount[PayloadOf(l)] = IF n = 0 THEN 1 ELSE 0
            /\ Cardinality({x \in 1 .. Len(ops) : ops[x].kind \in {"op", "op_p"}
                               /\ nodes[ops[x].data].data = PayloadOf(l)})
                  = IF n = 0 THEN 0 ELSE Cardinality(Present(linops[l]))

\* an operator with neither normal nor pseudo-inverse has been cloned and the
\* clone freed: the source's two handles are held once
C20_Witness ==
    \E l \in LinopIds :
        /\ linops[l].kind = "clone"
        /\ linops[l].st = "freed"
        /\ Present(linops[l]) = {"forward", "adjoint"}
        /\ linops[linops[l].a].st = "live"
        /\ ops[linops[l].forward].ref = 1
        /\ delCount[PayloadOf(l)] = 0


====
